---------------------------- MODULE Spec2Model ----------------------------
(* Model of lib/app.js of redis-commander: the sign-in endpoint and the    *)
(* token gate (jwtSign, jwtVerify, equalStrings) and the registry of open  *)
(* Redis connections (login, logout).                                      *)
EXTENDS Integers, Sequences, FiniteSets, TLC

VARIABLES
  hasTimingSafeEqual, \* whether crypto.timingSafeEqual exists (app.js:23)
  eqA, eqB,           \* the two arguments of an equalStrings call
  eqResult,           \* what the call returned
  eqPc,               \* "ready" before the call, "done" after it
  redisConnections,   \* the open collection (app.js:75): a sequence of handles
  clients,            \* per login call: the closure of login and its transport
  lastLogout,         \* the last logout call: arguments and outcome
  cfg,                \* httpServerOptions: username, password, passwordHash
  now,                \* the clock, in seconds
  usedTokens,         \* the set of spent single-use tokens (app.js:35)
  timers,             \* pending setTimeout evictions (app.js:61-63)
  issued,             \* tokens a sign-in response has handed out
  reqs,               \* the requests in flight, one per slot
  started,            \* how many requests have arrived
  singleUseOk,        \* single-use tokens that have verified true once
  replayed,           \* single-use tokens that have verified true again
  presented           \* the token sources of the latest request at the gate

vars == <<hasTimingSafeEqual, eqA, eqB, eqResult, eqPc,
          redisConnections, clients, lastLogout,
          cfg, now, usedTokens, timers, issued, reqs, started,
          singleUseOk, replayed, presented>>

eqVars == <<eqA, eqB, eqResult, eqPc>>
regVars == <<redisConnections, clients, lastLogout>>
gateVars == <<cfg, now, usedTokens, timers, issued, reqs, started,
              singleUseOk, replayed, presented>>

-----------------------------------------------------------------------------
(* Strings are sequences of characters; a value that is not there          *)
(* (undefined / null) is the one-element sequence Absent.                  *)

MaxLen == 3

Alphabet == {"a", "b"}

Absent == <<"#undefined">>

StringsOfLen[n \in 0..(MaxLen + 1)] ==
  IF n = 0 THEN {<<>>}
  ELSE {Append(s, c) : s \in StringsOfLen[n - 1], c \in Alphabet}

Strings == UNION {StringsOfLen[n] : n \in 0..MaxLen}

\* String(v): the cast of app.js:162-169; undefined becomes "undefined".
String(v) ==
  IF v = Absent THEN <<"u", "n", "d", "e", "f", "i", "n", "e", "d">> ELSE v

\* JavaScript truthiness of a string-or-undefined value.
Truthy(v) == v # Absent /\ v # <<>>

\* Buffer.concat([x, y])
BufferConcat(x, y) == x \o y

\* crypto.timingSafeEqual(x, y): byte-wise comparison of two buffers of the
\* same length (it throws on different lengths, which app.js:30-31 rules out).
timingSafeEqual(x, y) ==
  /\ Len(x) = Len(y)
  /\ \A i \in 1..Len(x) : x[i] = y[i]

\* equalStrings (app.js:22-33)
equalStrings(tse, a, b) ==
  IF ~tse THEN a = b
  ELSE timingSafeEqual(BufferConcat(String(a), String(b)),
                       BufferConcat(String(b), String(a)))

-----------------------------------------------------------------------------
(* The parts of the state a specification does not exercise.               *)

EqIdle ==
  /\ eqA = <<>> /\ eqB = <<>> /\ eqResult = FALSE /\ eqPc = "idle"

RegIdle ==
  /\ redisConnections = <<>>
  /\ clients = <<>>
  /\ lastLogout = <<>>

GateIdle ==
  /\ cfg = <<>> /\ now = 0 /\ usedTokens = {} /\ timers = {} /\ issued = {}
  /\ reqs = <<>> /\ started = 0 /\ singleUseOk = {} /\ replayed = {}
  /\ presented = <<>>

-----------------------------------------------------------------------------
(* The access gate: the sign-in endpoint (app.js:146-201), the gate         *)
(* middleware (app.js:202-231), jwtSign and jwtVerify (app.js:37-69).       *)

MaxReqs == 3
MaxInFlight == 2
MaxTime == 90
ClockStep == 30

\* "expiresIn": 60 (app.js:41)
ExpiresIn == 60
\* the 10 seconds added to exp for the eviction timer (app.js:63)
Grace == 10

Slots == 1..MaxInFlight

\* A token string is determined by its payload; the secret is fixed for the
\* process (app.js:80). Only jwtSign makes tokens whose signature verifies.
NoToken == [kind |-> "none", singleUse |-> FALSE, iat |-> 0]
Forged == [kind |-> "forged", singleUse |-> FALSE, iat |-> 0]

\* jwtSign (app.js:37-43): the payload gets iat = the time of the call.
jwtSign(singleUse, t) == [kind |-> "jwt", singleUse |-> singleUse, iat |-> t]

exp(token) == token.iat + ExpiresIn

\* bcrypt: the stored hash of a password, and bcrypt.compare (app.js:166).
BcryptHash(p) == <<"$">> \o p
bcryptCompare(p, hash) == hash = BcryptHash(p)

Configs ==
  { [username |-> Absent,  password |-> <<"a", "a">>, passwordHash |-> Absent],
    [username |-> <<"a">>, password |-> Absent,       passwordHash |-> Absent],
    [username |-> <<"a">>, password |-> <<"a", "a">>, passwordHash |-> Absent],
    [username |-> <<"a">>, password |-> Absent,
     passwordHash |-> BcryptHash(<<"a", "a">>)] }

Usernames == {Absent, <<"a">>, <<"b">>}
SuppliedPasswords == {Absent, <<>>, <<"b">>, <<"a", "a">>}

\* What a client can put where a token goes.
Presentable == {NoToken, Forged} \cup issued

IdleReq ==
  [kind |-> "none", pc |-> "idle", username |-> Absent, password |-> Absent,
   compare |-> "none", logged |-> "none", success |-> "unknown",
   tokenPresent |-> FALSE,
   extracted |-> NoToken, verifyCalls |-> 0, verifyResult |-> FALSE,
   response |-> "none", outBearer |-> NoToken, outQuery |-> NoToken]

\* A disabled check that wants both the username and the password missing.
authDisabledBoth(c) ==
  ~Truthy(c.username) /\ ~(Truthy(c.passwordHash) \/ Truthy(c.password))

\* A disabled check that does not know about password hashes.
authDisabledNoHash(c) == ~Truthy(c.username) \/ ~Truthy(c.password)

\* The test of app.js:152 and app.js:203: no principal is configured.
authDisabled(c) ==
  ~Truthy(c.username) \/ ~(Truthy(c.passwordHash) \/ Truthy(c.password))

\* A signature check that never looks at the expiry.
jwtValidNoExpiry(token, t) == token.kind = "jwt"

\* jwt.verify (app.js:47-53): the signature is ours and the token has not
\* expired.
jwtValid(token, t) == token.kind = "jwt" /\ t < exp(token)

\* jwtVerify reaches usedTokens.add (app.js:54-59).
jwtVerifyMarks(token, used, t) ==
  jwtValid(token, t) /\ token.singleUse /\ token \notin used

\* A verification that does not look at the spent-token set.
jwtVerifyNoReplayCheck(token, used, t) == jwtValid(token, t)

\* What jwtVerify resolves to (app.js:45-69).
jwtVerifyResult(token, used, t) ==
  jwtValid(token, t) /\ (token.singleUse => token \notin used)

\* The date the eviction timer of app.js:61-63 is set for.
evictDue(token) == exp(token) + Grace

\* The effect of one jwtVerify call on the spent-token set and its timers,
\* and the record of which single-use tokens have verified true.
JwtVerifyEffect(token) ==
  LET marks == jwtVerifyMarks(token, usedTokens, now)
      ok == jwtVerifyResult(token, usedTokens, now)
  IN /\ usedTokens' = IF marks THEN usedTokens \cup {token} ELSE usedTokens
     /\ timers' = IF marks
                  THEN timers \cup {[token |-> token, due |-> evictDue(token)]}
                  ELSE timers
     /\ singleUseOk' = IF ok /\ token.singleUse
                       THEN singleUseOk \cup {token} ELSE singleUseOk
     /\ replayed' = IF ok /\ token.singleUse /\ token \in singleUseOk
                    THEN replayed \cup {token} ELSE replayed

\* An extraction that looks at the Authorization header first.
extractTokenHeaderFirst(bodyToken, queryToken, bearer) ==
  IF bearer.kind # "none" THEN bearer
  ELSE IF bodyToken.kind # "none" THEN bodyToken
  ELSE queryToken

\* The token the gate takes from a request (app.js:206-216).
extractToken(bodyToken, queryToken, bearer) ==
  IF bodyToken.kind # "none" THEN bodyToken
  ELSE IF queryToken.kind # "none" THEN queryToken
  ELSE bearer

\* A gate that lets the request through whatever the verification said.
gateOutcomeAlwaysNext(success) == "next"

\* The gate's answer once jwtVerify has resolved (app.js:223-230).
gateOutcome(success) == IF ~success THEN "401invalid" ELSE "next"

\* No request has come to the gate yet.
Unpresented == [bodyToken |-> NoToken, queryToken |-> NoToken, bearer |-> NoToken]

InitGate ==
  /\ hasTimingSafeEqual \in BOOLEAN
  /\ EqIdle
  /\ RegIdle
  /\ cfg \in Configs
  /\ now = 0
  /\ usedTokens = {}
  /\ timers = {}
  /\ issued = {}
  /\ reqs = [r \in Slots |-> IdleReq]
  /\ started = 0
  /\ singleUseOk = {}
  /\ replayed = {}
  /\ presented = Unpresented

\* InitGate with a principal configured by a password hash, on a runtime
\* that has crypto.timingSafeEqual.
InitExtract ==
  /\ InitGate
  /\ hasTimingSafeEqual
  /\ Truthy(cfg.username) /\ Truthy(cfg.passwordHash)

\* A free slot takes the next request; the lowest free slot is used.
CanStart(r) ==
  /\ reqs[r].pc = "idle"
  /\ \A q \in Slots : q < r => reqs[q].pc # "idle"
  /\ started < MaxReqs

\* The handlers registered before the gate that answer a request themselves:
\* the static directories (app.js:114-122), the browserify bundle
\* (app.js:126-131) and the home page (app.js:137-145).
PublicRoutes == {"static", "browserify", "home"}

\* A GET one of those handlers serves: it is answered there, and neither
\* the sign-in handler nor the gate sees it.
PublicRequest(r, route) ==
  /\ CanStart(r)
  /\ started' = started + 1
  /\ reqs' = [reqs EXCEPT ![r] =
       [IdleReq EXCEPT !.kind = route, !.pc = "done", !.response = "content"]]
  /\ UNCHANGED <<hasTimingSafeEqual, eqVars, regVars, presented, cfg, now, usedTokens,
                 timers, issued, singleUseOk, replayed>>

\* POST /signin: the handler up to the end of its first `then`
\* (app.js:146-185).
SigninRequest(r, username, password, bearer) ==
  /\ CanStart(r)
  /\ (Truthy(username) \/ Truthy(password)) => bearer = NoToken
  /\ started' = started + 1
  /\ LET base == [IdleReq EXCEPT !.kind = "signin", !.pc = "respond",
                                 !.username = username, !.password = password]
         okUser == String(username) = String(cfg.username)
     IN IF authDisabled(cfg)
        THEN /\ reqs' = [reqs EXCEPT ![r] = [base EXCEPT !.success = "true"]]
             /\ UNCHANGED <<usedTokens, timers, singleUseOk, replayed>>
        ELSE IF Truthy(username) \/ Truthy(password)
        THEN /\ IF Truthy(cfg.passwordHash)
                THEN reqs' = [reqs EXCEPT ![r] =
                       [base EXCEPT
                          !.compare = "pending",
                          !.logged = IF okUser THEN "success" ELSE "failed",
                          !.success = IF okUser THEN "unknown" ELSE "false"]]
                ELSE LET okPass == equalStrings(hasTimingSafeEqual,
                                      String(password), String(cfg.password))
                     IN reqs' = [reqs EXCEPT ![r] =
                          [base EXCEPT
                             !.compare = "done",
                             !.logged = IF okUser /\ okPass
                                        THEN "success" ELSE "failed",
                             !.success = IF okUser /\ okPass
                                         THEN "true" ELSE "false"]]
             /\ UNCHANGED <<usedTokens, timers, singleUseOk, replayed>>
        ELSE IF bearer.kind # "none"
        THEN /\ reqs' = [reqs EXCEPT ![r] =
                  [base EXCEPT
                     !.extracted = bearer, !.verifyCalls = 1,
                     !.verifyResult = jwtVerifyResult(bearer, usedTokens, now),
                     !.success = IF jwtVerifyResult(bearer, usedTokens, now)
                                 THEN "true" ELSE "false"]]
             /\ JwtVerifyEffect(bearer)
        ELSE /\ reqs' = [reqs EXCEPT ![r] = [base EXCEPT !.success = "false"]]
             /\ UNCHANGED <<usedTokens, timers, singleUseOk, replayed>>
  /\ UNCHANGED <<hasTimingSafeEqual, eqVars, regVars, presented, cfg, now, issued>>

\* bcrypt.compare resolves (app.js:166, 178).
SigninCompareDone(r) ==
  /\ reqs[r].kind = "signin"
  /\ reqs[r].compare = "pending"
  /\ reqs' = [reqs EXCEPT ![r] =
       [@ EXCEPT !.compare = "done",
                 !.success =
                   IF @ # "unknown" THEN @
                   ELSE IF bcryptCompare(String(reqs[r].password),
                                         String(cfg.passwordHash))
                        THEN "true" ELSE "false"]]
  /\ UNCHANGED <<hasTimingSafeEqual, eqVars, regVars, presented, cfg, now, usedTokens,
                 timers, issued, started, singleUseOk, replayed>>

\* The second `then` (app.js:186-194): ok:false, or both tokens are signed.
SigninRespond(r) ==
  /\ reqs[r].kind = "signin"
  /\ reqs[r].pc = "respond"
  /\ reqs[r].success # "unknown"
  /\ reqs' = [reqs EXCEPT ![r] =
       IF reqs[r].success = "false"
       THEN [@ EXCEPT !.pc = "done", !.response = "fail"]
       ELSE [@ EXCEPT !.pc = "signing",
                      !.outBearer = jwtSign(FALSE, now),
                      !.outQuery = jwtSign(TRUE, now)]]
  /\ UNCHANGED <<hasTimingSafeEqual, eqVars, regVars, presented, cfg, now, usedTokens,
                 timers, issued, started, singleUseOk, replayed>>

\* Both signatures are done: res.json with ok:true (app.js:195-199).
SigninSend(r) ==
  /\ reqs[r].kind = "signin"
  /\ reqs[r].pc = "signing"
  /\ reqs' = [reqs EXCEPT ![r] = [@ EXCEPT !.pc = "done", !.response = "ok"]]
  /\ issued' = issued \cup {reqs[r].outBearer, reqs[r].outQuery}
  /\ UNCHANGED <<hasTimingSafeEqual, eqVars, regVars, presented, cfg, now, usedTokens,
                 timers, started, singleUseOk, replayed>>

\* Any other request: the gate middleware up to the call of jwtVerify
\* (app.js:202-222).
GateMiddleware(r, bodyToken, queryToken, bearer) ==
  /\ CanStart(r)
  /\ started' = started + 1
  /\ LET base == [IdleReq EXCEPT
                    !.kind = "gate",
                    !.tokenPresent = \/ bodyToken.kind # "none"
                                     \/ queryToken.kind # "none"
                                     \/ bearer.kind # "none"]
         token == extractToken(bodyToken, queryToken, bearer)
     IN IF authDisabled(cfg)
        THEN /\ reqs' = [reqs EXCEPT ![r] =
                  [base EXCEPT !.pc = "done", !.response = "next"]]
             /\ UNCHANGED <<usedTokens, timers, singleUseOk, replayed>>
        ELSE IF token.kind = "none"
        THEN /\ reqs' = [reqs EXCEPT ![r] =
                  [base EXCEPT !.pc = "done", !.response = "401missing"]]
             /\ UNCHANGED <<usedTokens, timers, singleUseOk, replayed>>
        ELSE /\ reqs' = [reqs EXCEPT ![r] =
                  [base EXCEPT
                     !.pc = "verified", !.extracted = token, !.verifyCalls = 1,
                     !.verifyResult = jwtVerifyResult(token, usedTokens, now)]]
             /\ JwtVerifyEffect(token)
  /\ UNCHANGED <<hasTimingSafeEqual, eqVars, regVars, cfg, now, issued>>

\* The gate middleware, its request's token sources not recorded.
GateRequest(r, bodyToken, queryToken, bearer) ==
  /\ GateMiddleware(r, bodyToken, queryToken, bearer)
  /\ UNCHANGED presented

\* The gate middleware, its request's token sources recorded.
GateRequestObserved(r, bodyToken, queryToken, bearer) ==
  /\ GateMiddleware(r, bodyToken, queryToken, bearer)
  /\ presented' = [bodyToken |-> bodyToken, queryToken |-> queryToken,
                   bearer |-> bearer]

\* The `then` of the gate (app.js:223-230).
GateThen(r) ==
  /\ reqs[r].kind = "gate"
  /\ reqs[r].pc = "verified"
  /\ reqs' = [reqs EXCEPT ![r] =
       [@ EXCEPT !.pc = "done", !.response = gateOutcome(reqs[r].verifyResult)]]
  /\ UNCHANGED <<hasTimingSafeEqual, eqVars, regVars, presented, cfg, now, usedTokens,
                 timers, issued, started, singleUseOk, replayed>>

\* The request is over and its slot is free again.
Retire(r) ==
  /\ reqs[r].pc = "done"
  /\ reqs' = [reqs EXCEPT ![r] = IdleReq]
  /\ UNCHANGED <<hasTimingSafeEqual, eqVars, regVars, presented, cfg, now, usedTokens,
                 timers, issued, started, singleUseOk, replayed>>

\* An eviction timer fires, at its date or later (app.js:61-63).
Evict(timer) ==
  /\ timer \in timers
  /\ now >= timer.due
  /\ usedTokens' = usedTokens \ {timer.token}
  /\ timers' = timers \ {timer}
  /\ UNCHANGED <<hasTimingSafeEqual, eqVars, regVars, presented, cfg, now, issued, reqs,
                 started, singleUseOk, replayed>>

\* Time passes.
Tick ==
  /\ now + ClockStep <= MaxTime
  /\ now' = now + ClockStep
  /\ UNCHANGED <<hasTimingSafeEqual, eqVars, regVars, presented, cfg, usedTokens, timers,
                 issued, reqs, started, singleUseOk, replayed>>

\* Every step but the arrival of a request at the gate.
NextBesideGate ==
  \/ \E r \in Slots, route \in PublicRoutes : PublicRequest(r, route)
  \/ \E r \in Slots, username \in Usernames, password \in SuppliedPasswords,
        bearer \in Presentable :
       SigninRequest(r, username, password, bearer)
  \/ \E r \in Slots : SigninCompareDone(r)
  \/ \E r \in Slots : SigninRespond(r)
  \/ \E r \in Slots : SigninSend(r)
  \/ \E r \in Slots : GateThen(r)
  \/ \E r \in Slots : Retire(r)
  \/ \E timer \in timers : Evict(timer)
  \/ Tick

NextGate ==
  \/ NextBesideGate
  \/ \E r \in Slots, bodyToken \in Presentable, queryToken \in Presentable,
        bearer \in Presentable :
       GateRequest(r, bodyToken, queryToken, bearer)

SpecGate == InitGate /\ [][NextGate]_vars

\* The same steps, the gate's requests observed.
NextExtract ==
  \/ NextBesideGate
  \/ \E r \in Slots, bodyToken \in Presentable, queryToken \in Presentable,
        bearer \in Presentable :
       GateRequestObserved(r, bodyToken, queryToken, bearer)

SpecExtract == InitExtract /\ [][NextExtract]_vars

\* A principal is configured: a username and a password or a password hash.
PrincipalConfigured ==
  Truthy(cfg.username) /\ (Truthy(cfg.password) \/ Truthy(cfg.passwordHash))

\* C1: with a username and a plaintext password configured, a sign-in that
\* carries a username or a password answers ok:true if and only if both
\* equal the configured ones.
PlainSigninIffCredentialsMatch ==
  (Truthy(cfg.username) /\ Truthy(cfg.password) /\ ~Truthy(cfg.passwordHash))
  => \A r \in Slots :
       ( /\ reqs[r].kind = "signin"
         /\ reqs[r].pc = "done"
         /\ (Truthy(reqs[r].username) \/ Truthy(reqs[r].password)) )
       => ( reqs[r].response = "ok"
            <=> ( /\ reqs[r].username = cfg.username
                  /\ reqs[r].password = cfg.password ) )

\* C3: no single-use token verifies true a second time, at the gate or at
\* the Bearer path of the sign-in, before its expiry or after its entry has
\* been evicted from the spent-token set.
SingleUseVerifiesAtMostOnce == replayed = {}

\* C3's case: a single-use token that verified true once has been presented
\* again before its expiry and was refused.
ReplayRefusedBeforeExpiry ==
  \E r \in Slots :
    /\ reqs[r].verifyCalls = 1
    /\ reqs[r].extracted.singleUse
    /\ reqs[r].extracted \in singleUseOk
    /\ ~reqs[r].verifyResult
    /\ now < exp(reqs[r].extracted)

\* C4: with no principal configured every sign-in answers ok:true with both
\* tokens, and the gate passes every request on without extracting or
\* verifying a token.
NoPrincipalAdmitsAll ==
  ~PrincipalConfigured
  => /\ usedTokens = {}
     /\ \A r \in Slots :
          /\ reqs[r].verifyCalls = 0
          /\ reqs[r].extracted = NoToken
          /\ (reqs[r].kind = "signin" /\ reqs[r].pc = "done")
             => /\ reqs[r].response = "ok"
                /\ reqs[r].outBearer.kind = "jwt"
                /\ ~reqs[r].outBearer.singleUse
                /\ reqs[r].outQuery.kind = "jwt"
                /\ reqs[r].outQuery.singleUse
          /\ reqs[r].kind = "signin" => reqs[r].response # "fail"
          /\ reqs[r].kind = "gate"
             => reqs[r].pc = "done" /\ reqs[r].response = "next"

\* C4's case: no principal, a sign-in with a wrong username and an empty
\* password has been answered, and the gate has passed a request on.
NoPrincipalSigninAndGateDone ==
  /\ ~PrincipalConfigured
  /\ \E r, q \in Slots :
       /\ reqs[r].kind = "signin" /\ reqs[r].pc = "done"
       /\ reqs[r].username = <<"b">> /\ reqs[r].password = <<>>
       /\ reqs[q].kind = "gate" /\ reqs[q].pc = "done"

\* C5: with a principal configured, a request at the gate ends REJECTED or
\* ADMITTED: admitted only if its token verified true; 'Missing Token' when
\* it carries no token, with no verification and the spent-token set left
\* alone; 'Token Invalid or Expired' when the verification returned false.
GateOutcomes ==
  [][\A r \in Slots :
       ( /\ PrincipalConfigured
         /\ reqs'[r].kind = "gate"
         /\ reqs'[r].pc = "done"
         /\ reqs[r].pc # "done" )
       => /\ reqs'[r].response \in {"next", "401missing", "401invalid"}
          /\ reqs'[r].response = "next"
             => reqs'[r].verifyCalls = 1 /\ reqs'[r].verifyResult
          /\ ~reqs'[r].tokenPresent
             => /\ reqs'[r].response = "401missing"
                /\ reqs'[r].verifyCalls = 0
                /\ usedTokens' = usedTokens
                /\ timers' = timers
          /\ reqs'[r].tokenPresent
             => /\ reqs'[r].verifyCalls = 1
                /\ ~reqs'[r].verifyResult => reqs'[r].response = "401invalid"]_vars

\* C5's case: with a principal configured the gate has admitted one request
\* and refused another that carried no token.
GateAdmittedAndMissing ==
  /\ PrincipalConfigured
  /\ \E r, q \in Slots :
       /\ reqs[r].kind = "gate" /\ reqs[r].pc = "done"
       /\ reqs[r].response = "next"
       /\ reqs[q].kind = "gate" /\ reqs[q].pc = "done"
       /\ reqs[q].response = "401missing"

\* C13: a bearer token (not single-use) verifies true on every presentation
\* before its expiry, whatever was presented before, and false on every
\* presentation after its expiry; a presentation spends nothing.
BearerValidUntilExpiry ==
  [][\A r \in Slots :
       ( /\ reqs[r].verifyCalls = 0
         /\ reqs'[r].verifyCalls = 1
         /\ reqs'[r].extracted \in issued
         /\ ~reqs'[r].extracted.singleUse )
       => /\ now < exp(reqs'[r].extracted) => reqs'[r].verifyResult
          /\ now > exp(reqs'[r].extracted) => ~reqs'[r].verifyResult
          /\ usedTokens' = usedTokens ]_vars

\* C13's case: the same bearer token has been presented at the gate before
\* its expiry, where it verified true, and after it, where it verified false.
BearerAcceptedThenExpired ==
  \E r, q \in Slots :
    /\ r # q
    /\ reqs[r].kind = "gate" /\ reqs[q].kind = "gate"
    /\ reqs[r].extracted \in issued
    /\ ~reqs[r].extracted.singleUse
    /\ reqs[q].extracted = reqs[r].extracted
    /\ reqs[r].verifyCalls = 1 /\ reqs[r].verifyResult
    /\ reqs[q].verifyCalls = 1 /\ ~reqs[q].verifyResult
    /\ now > exp(reqs[r].extracted)

\* C18: a sign-in that supplies a username or a password is answered only
\* after its password comparison has completed, whether the username
\* matched or not, in plaintext mode and in password-hash mode.
ResponseAfterComparison ==
  PrincipalConfigured
  => \A r \in Slots :
       ( /\ reqs[r].kind = "signin"
         /\ (Truthy(reqs[r].username) \/ Truthy(reqs[r].password))
         /\ reqs[r].response # "none" )
       => reqs[r].compare = "done"

\* C19: two distinct successful sign-ins never receive the same single-use
\* queryToken, so that spending one session's token cannot make the first
\* use of another session's token a replay.
QueryTokensDistinct ==
  \A r, q \in Slots :
    ( /\ PrincipalConfigured
      /\ r # q
      /\ reqs[r].kind = "signin" /\ reqs[r].response = "ok"
      /\ reqs[q].kind = "signin" /\ reqs[q].response = "ok" )
    => reqs[r].outQuery # reqs[q].outQuery

\* C20: the outcome logged for a username/password sign-in is the outcome
\* answered: 'Login success' only with ok:true, 'Login failed' only with
\* ok:false.
LoggedOutcomeIsAnswered ==
  \A r \in Slots :
    ( /\ reqs[r].kind = "signin"
      /\ reqs[r].logged # "none"
      /\ reqs[r].response # "none" )
    => ( /\ reqs[r].logged = "success" => reqs[r].response = "ok"
         /\ reqs[r].logged = "failed" => reqs[r].response = "fail" )

FirstPresented ==
  IF presented.bodyToken # NoToken THEN presented.bodyToken
  ELSE IF presented.queryToken # NoToken THEN presented.queryToken
  ELSE presented.bearer

\* C17: the gate takes the token of the first present source in the order
\* body field, query parameter, Authorization header, and verifies that
\* token only: the request is admitted or refused on it alone, whatever the
\* lower-priority sources hold, and no other token is added to the
\* spent-token set.
GateTakesFirstSource ==
  [][\A r \in Slots :
       ( reqs[r].kind = "none" /\ reqs'[r].kind = "gate" )
       => /\ reqs'[r].extracted = FirstPresented'
          /\ reqs'[r].verifyCalls = IF FirstPresented' = NoToken THEN 0 ELSE 1
          /\ reqs'[r].verifyResult
             <=> ( /\ FirstPresented' \in issued
                   /\ now < exp(FirstPresented')
                   /\ FirstPresented'.singleUse
                      => FirstPresented' \notin usedTokens )
          /\ ~reqs'[r].verifyResult => reqs'[r].response # "next"
          /\ usedTokens' \subseteq usedTokens \cup {FirstPresented'}
          /\ timers' \subseteq
               timers \cup {[token |-> FirstPresented',
                             due |-> evictDue(FirstPresented')]} ]_vars

\* C17's case: a request with a forged token in its body and an unspent,
\* unexpired single-use token in its query has been refused, and the
\* single-use token is still unspent.
HigherInvalidShadowsLowerValid ==
  \E r \in Slots :
    /\ reqs[r].kind = "gate"
    /\ reqs[r].response = "401invalid"
    /\ presented.bodyToken = Forged
    /\ reqs[r].extracted = Forged
    /\ presented.queryToken \in issued
    /\ presented.queryToken.singleUse
    /\ now < exp(presented.queryToken)
    /\ presented.queryToken \notin usedTokens
    /\ presented.queryToken \notin singleUseOk
    /\ started = 2

-----------------------------------------------------------------------------
(* The connection registry: login and logout (app.js:237-315) and the     *)
(* events of the ioredis transport that run the handlers login registers. *)

MaxLogins == 2
MaxLogouts == 2
MaxReconnects == 1
MaxErrors == 1

LoginIds == 1..MaxLogins

Hosts == {"h1", "h2"}
Ports == {6379}
DbIndexes == {0, 1}
Labels == {"l1"}
Passwords == {Absent, <<"p">>}

\* The db an ioredis client is constructed with when no `db` option is given.
DefaultDb == 0

\* new Redis({port, host, family, dbIndex, password}) (app.js:264-270): the
\* options the client keeps. ioredis reads the database from the option `db`;
\* the key `dbIndex` is kept but not interpreted, so options.db is the default.
Redis(port, host, dbIndex, password) ==
  [host |-> host, port |-> port, db |-> DefaultDb,
   dbIndex |-> dbIndex, password |-> password]

\* parseInt(dbIndex || 0) (app.js:299) on the integers login is called with.
ParseInt(d) == IF d = 0 THEN 0 ELSE d

IdleClient ==
  [phase |-> "idle", label |-> "", dbIndex |-> 0,
   options |-> Redis(0, "", 0, Absent),
   callback |-> FALSE, cbCalls |-> 0, cbFirst |-> "none",
   isPushed |-> FALSE, connectListeners |-> 0,
   status |-> "idle", authPending |-> FALSE, authOk |-> FALSE,
   selectPending |-> 0,
   connects |-> 0, errors |-> 0, quits |-> 0]

\* A callback wrapper that forgets the guard of app.js:255-257.
onceCallbackUnguarded(c, err) ==
  [c EXCEPT !.callback = FALSE,
            !.cbCalls = @ + 1,
            !.cbFirst = IF @ = "none" THEN (IF err THEN "err" ELSE "ok") ELSE @]

\* onceCallback (app.js:254-261): calls the callback of login at most once.
onceCallback(c, err) ==
  IF ~c.callback THEN c
  ELSE [c EXCEPT !.callback = FALSE,
                 !.cbCalls = @ + 1,
                 !.cbFirst = IF err THEN "err" ELSE "ok"]

\* selectDatabase up to the select command being sent (app.js:297-304).
selectDatabase(c) ==
  [c EXCEPT !.dbIndex = ParseInt(@), !.selectPending = @ + 1]

\* client.quit() / client.disconnect(): the transport is released; it does
\* not reconnect and answers what is outstanding with an error.
release(c) == [c EXCEPT !.status = "released", !.quits = @ + 1]

Range(seq) == {seq[k] : k \in 1..Len(seq)}

RemoveAt(seq, k) == SubSeq(seq, 1, k - 1) \o SubSeq(seq, k + 1, Len(seq))

\* The test of app.js:240 on one handle.
Matches(c, hostname, port, db) ==
  c.options.host = hostname /\ c.options.port = port /\ c.options.db = db

\* The index of the first handle logout removes, 0 when there is none.
FirstMatch(hostname, port, db) ==
  LET hit == {k \in 1..Len(redisConnections) :
                Matches(clients[redisConnections[k]], hostname, port, db)}
  IN IF hit = {} THEN 0 ELSE CHOOSE k \in hit : \A j \in hit : k <= j

InitReg ==
  /\ hasTimingSafeEqual = TRUE
  /\ EqIdle
  /\ GateIdle
  /\ redisConnections = <<>>
  /\ clients = [i \in LoginIds |-> IdleClient]
  /\ lastLogout = [n |-> 0, hostname |-> "", port |-> 0, db |-> 0,
                   err |-> FALSE, removed |-> 0]

\* login (app.js:253-295), up to the return of the call.
Login(i, label, hostname, port, password, dbIndex) ==
  /\ clients[i].phase = "idle"
  /\ i > 1 => clients[i - 1].phase = "called"
  /\ clients' = [clients EXCEPT ![i] =
       [IdleClient EXCEPT
          !.phase = "called", !.label = label, !.dbIndex = dbIndex,
          !.options = Redis(port, hostname, dbIndex, password),
          !.callback = TRUE, !.status = "connecting",
          !.authPending = Truthy(password),
          !.connectListeners = IF Truthy(password) THEN 0 ELSE 1]]
  /\ UNCHANGED <<hasTimingSafeEqual, eqVars, gateVars, redisConnections, lastLogout>>

\* The transport emits "connect": every registered selectDatabase runs
\* (app.js:291, 294).
TransportConnect(i) ==
  /\ clients[i].phase = "called"
  /\ clients[i].status \in {"connecting", "closed"}
  /\ clients[i].connects <= MaxReconnects
  /\ clients' = [clients EXCEPT ![i] =
       LET c == [@ EXCEPT !.status = "connect", !.connects = @ + 1]
       IN IF c.connectListeners > 0 THEN selectDatabase(c) ELSE c]
  /\ UNCHANGED <<hasTimingSafeEqual, eqVars, gateVars, redisConnections, lastLogout>>

\* The connection closes and the transport will reconnect; the handler of
\* app.js:282-284 only logs.
TransportEnd(i) ==
  /\ clients[i].phase = "called"
  /\ clients[i].status = "connect"
  /\ clients[i].connects <= MaxReconnects
  /\ clients' = [clients EXCEPT ![i].status = "closed"]
  /\ UNCHANGED <<hasTimingSafeEqual, eqVars, gateVars, redisConnections, lastLogout>>

\* An error handler that releases the transport whether or not the handle
\* has been pushed.
TransportErrorAlwaysRelease(i) ==
  /\ clients[i].phase = "called"
  /\ clients[i].status # "released"
  /\ clients[i].errors < MaxErrors
  /\ clients' = [clients EXCEPT ![i] =
       onceCallback(release([@ EXCEPT !.errors = @ + 1]), TRUE)]
  /\ UNCHANGED <<hasTimingSafeEqual, eqVars, gateVars, redisConnections, lastLogout>>

\* The transport emits "error" (app.js:273-281).
TransportError(i) ==
  /\ clients[i].phase = "called"
  /\ clients[i].status # "released"
  /\ clients[i].errors < MaxErrors
  /\ clients' = [clients EXCEPT ![i] =
       LET c == [@ EXCEPT !.errors = @ + 1]
           d == IF ~c.isPushed THEN release(c) ELSE c
       IN onceCallback(d, TRUE)]
  /\ UNCHANGED <<hasTimingSafeEqual, eqVars, gateVars, redisConnections, lastLogout>>

\* An auth callback that registers selectDatabase after a failure too.
AuthReplyLax(i, ok) ==
  /\ clients[i].phase = "called"
  /\ clients[i].authPending
  /\ ok => clients[i].status = "connect"
  /\ clients' = [clients EXCEPT ![i] =
       LET c == [@ EXCEPT !.authPending = FALSE, !.authOk = ok,
                          !.connectListeners = @ + 1]
       IN IF ~ok THEN onceCallback(c, TRUE) ELSE c]
  /\ UNCHANGED <<hasTimingSafeEqual, eqVars, gateVars, redisConnections, lastLogout>>

\* The reply to client.auth (app.js:286-292). A success needs a connection.
AuthReply(i, ok) ==
  /\ clients[i].phase = "called"
  /\ clients[i].authPending
  /\ ok => clients[i].status = "connect"
  /\ clients' = [clients EXCEPT ![i] =
       LET c == [@ EXCEPT !.authPending = FALSE, !.authOk = ok]
       IN IF ~ok THEN onceCallback(c, TRUE)
          ELSE [c EXCEPT !.connectListeners = @ + 1]]
  /\ UNCHANGED <<hasTimingSafeEqual, eqVars, gateVars, redisConnections, lastLogout>>

\* The reply to client.select (app.js:304-313). A success needs a connection.
SelectReply(i, ok) ==
  /\ clients[i].phase = "called"
  /\ clients[i].selectPending > 0
  /\ ok => clients[i].status = "connect"
  /\ IF ~ok
     THEN /\ clients' = [clients EXCEPT ![i] =
               onceCallback([@ EXCEPT !.selectPending = @ - 1], TRUE)]
          /\ UNCHANGED redisConnections
     ELSE /\ redisConnections' = Append(redisConnections, i)
          /\ clients' = [clients EXCEPT ![i] =
               onceCallback([@ EXCEPT !.selectPending = @ - 1,
                                      !.isPushed = TRUE], FALSE)]
  /\ UNCHANGED <<hasTimingSafeEqual, eqVars, gateVars, lastLogout>>

\* logout (app.js:237-251)
Logout(hostname, port, db) ==
  /\ lastLogout.n < MaxLogouts
  /\ LET k == FirstMatch(hostname, port, db)
     IN IF k = 0
        THEN /\ lastLogout' = [n |-> lastLogout.n + 1, hostname |-> hostname,
                               port |-> port, db |-> db,
                               err |-> TRUE, removed |-> 0]
             /\ UNCHANGED <<redisConnections, clients>>
        ELSE /\ lastLogout' = [n |-> lastLogout.n + 1, hostname |-> hostname,
                               port |-> port, db |-> db,
                               err |-> FALSE, removed |-> redisConnections[k]]
             /\ redisConnections' = RemoveAt(redisConnections, k)
             /\ clients' = [clients EXCEPT ![redisConnections[k]] = release(@)]
  /\ UNCHANGED <<hasTimingSafeEqual, eqVars, gateVars>>

NextReg ==
  \/ \E i \in LoginIds, label \in Labels, hostname \in Hosts, port \in Ports,
        password \in Passwords, dbIndex \in DbIndexes :
       Login(i, label, hostname, port, password, dbIndex)
  \/ \E i \in LoginIds : TransportConnect(i)
  \/ \E i \in LoginIds : TransportEnd(i)
  \/ \E i \in LoginIds : TransportError(i)
  \/ \E i \in LoginIds, ok \in BOOLEAN : AuthReply(i, ok)
  \/ \E i \in LoginIds, ok \in BOOLEAN : SelectReply(i, ok)
  \/ \E hostname \in Hosts, port \in Ports, db \in DbIndexes :
       Logout(hostname, port, db)

SpecReg == InitReg /\ [][NextReg]_vars

\* The registry under the scheduling the transport guarantees: a connection
\* attempt ends (in "connect", unless an error released the transport) and
\* every command sent is answered.
LiveReg ==
  /\ SpecReg
  /\ \A i \in LoginIds : WF_vars(TransportConnect(i))
  /\ \A i \in LoginIds : WF_vars(\E ok \in BOOLEAN : AuthReply(i, ok))
  /\ \A i \in LoginIds : WF_vars(\E ok \in BOOLEAN : SelectReply(i, ok))

\* C6: a login whose callback was invoked with an error has no handle in the
\* open collection, then and ever after.
ErroredLoginNeverRegistered ==
  \A i \in LoginIds :
    clients[i].cbFirst = "err" => i \notin Range(redisConnections)

\* C7: no handle occurs in the open collection more than once.
NoDuplicateHandles ==
  \A j, k \in 1..Len(redisConnections) :
    j # k => redisConnections[j] # redisConnections[k]

\* C8: a logout called with the host, port and database index of a login
\* that completed with no error (its handle is in the collection) signals
\* success, removes that handle and nothing else.
LoginLogoutRoundTrip ==
  [][\A i \in LoginIds :
       ( /\ lastLogout'.n = lastLogout.n + 1
         /\ clients[i].cbFirst = "ok"
         /\ i \in Range(redisConnections)
         /\ lastLogout'.hostname = clients[i].options.host
         /\ lastLogout'.port = clients[i].options.port
         /\ lastLogout'.db = clients[i].dbIndex )
       => ( /\ lastLogout'.err = FALSE
            /\ lastLogout'.removed = i
            /\ redisConnections' =
                 SelectSeq(redisConnections, LAMBDA h : h # i) )]_vars

\* C9: the callback of a login call is invoked at most once.
CallbackAtMostOnce ==
  \A i \in LoginIds : clients[i].cbCalls <= 1

\* C9's case: the handshake succeeded, a transport error came later, and the
\* callback has been invoked once.
LateErrorAfterSuccess ==
  \E i \in LoginIds :
    /\ clients[i].isPushed
    /\ clients[i].cbFirst = "ok"
    /\ clients[i].errors > 0
    /\ clients[i].cbCalls = 1

\* C10: every login call eventually invokes its callback.
EveryLoginCallsBack ==
  \A i \in LoginIds :
    (clients[i].phase = "called") ~> (clients[i].cbCalls > 0)

\* The places of the collection whose handle was opened for hostname, port
\* and database index db.
MatchingAt(hostname, port, db) ==
  {k \in 1..Len(redisConnections) :
     /\ clients[redisConnections[k]].options.host = hostname
     /\ clients[redisConnections[k]].options.port = port
     /\ ParseInt(clients[redisConnections[k]].dbIndex) = db}

\* C11: a logout for a host, port and database index that no handle of the
\* collection was opened for reports an error, leaves the collection as it
\* is and releases no transport.
LogoutNoMatch ==
  [][( /\ lastLogout'.n = lastLogout.n + 1
       /\ MatchingAt(lastLogout'.hostname, lastLogout'.port,
                     lastLogout'.db) = {} )
     => ( /\ lastLogout'.err = TRUE
          /\ lastLogout'.removed = 0
          /\ redisConnections' = redisConnections
          /\ clients' = clients )]_vars

\* C12: every handle in the collection has completed its handshake: the
\* transport connected, the authentication succeeded when a password was
\* given, and the select succeeded; so a logout never removes the handle of
\* a login still in flight.
RegisteredHandlesCompleted ==
  /\ \A i \in Range(redisConnections) :
       /\ clients[i].phase = "called"
       /\ clients[i].connects >= 1
       /\ Truthy(clients[i].options.password)
          => clients[i].authOk /\ ~clients[i].authPending
       /\ clients[i].isPushed
  /\ lastLogout.removed # 0 => clients[lastLogout.removed].isPushed

\* C12's case: a login with a password has its handle in the collection
\* while another login for the same host, port and database index is still
\* in flight, and a logout for that triple has run.
PasswordHandleRegisteredOtherInFlight ==
  \E i, j \in LoginIds :
    /\ i # j
    /\ i \in Range(redisConnections)
    /\ Truthy(clients[i].options.password)
    /\ clients[j].phase = "called" /\ ~clients[j].isPushed
    /\ clients[j].status = "connect"
    /\ clients[j].options = clients[i].options
    /\ lastLogout.n > 0
    /\ lastLogout.hostname = clients[j].options.host
    /\ lastLogout.db = clients[j].options.db

\* C15: a transport error after the handle has been appended leaves the
\* collection alone, releases nothing and does not call the callback again;
\* the "end" event changes nothing of the registry either.
LateErrorChangesNothing ==
  [][\A i \in LoginIds :
       /\ ( clients[i].isPushed /\ clients'[i].errors = clients[i].errors + 1 )
          => ( /\ redisConnections' = redisConnections
               /\ clients'[i].quits = clients[i].quits
               /\ clients'[i].status = clients[i].status
               /\ clients'[i].cbCalls = clients[i].cbCalls
               /\ clients'[i].isPushed )
       /\ ( clients[i].status = "connect" /\ clients'[i].status = "closed" )
          => ( /\ redisConnections' = redisConnections
               /\ clients'[i].quits = clients[i].quits
               /\ clients'[i].cbCalls = clients[i].cbCalls
               /\ clients'[i].isPushed = clients[i].isPushed
               /\ clients'[i].callback = clients[i].callback )]_vars

\* C15's case: a registered handle has seen a transport error and, later,
\* the end of its connection; it is still registered and was never released.
RegisteredAfterErrorAndEnd ==
  \E i \in LoginIds :
    /\ i \in Range(redisConnections)
    /\ clients[i].errors > 0
    /\ clients[i].status = "closed"
    /\ clients[i].quits = 0
    /\ clients[i].cbCalls = 1
    /\ clients[i].cbFirst = "ok"

\* C16: a logout for a host, port and database index that some handle was
\* opened for removes one element, the first such handle in collection
\* order, calls quit on that handle only, keeps the others in their order,
\* and reports no error.
LogoutRemovesFirstMatch ==
  [][\A k \in 1..Len(redisConnections) :
       ( /\ lastLogout'.n = lastLogout.n + 1
         /\ k \in MatchingAt(lastLogout'.hostname, lastLogout'.port,
                             lastLogout'.db)
         /\ \A j \in MatchingAt(lastLogout'.hostname, lastLogout'.port,
                                lastLogout'.db) : k <= j )
       => ( /\ lastLogout'.err = FALSE
            /\ lastLogout'.removed = redisConnections[k]
            /\ Len(redisConnections') = Len(redisConnections) - 1
            /\ redisConnections' =
                 SubSeq(redisConnections, 1, k - 1)
                 \o SubSeq(redisConnections, k + 1, Len(redisConnections))
            /\ \A i \in LoginIds :
                 IF i = redisConnections[k]
                 THEN clients'[i].quits = clients[i].quits + 1
                 ELSE clients'[i] = clients[i] )]_vars

-----------------------------------------------------------------------------
(* The pure function equalStrings, applied to every pair of strings.       *)

InitEq ==
  /\ hasTimingSafeEqual \in BOOLEAN
  /\ eqA \in Strings
  /\ eqB \in Strings
  /\ eqResult = FALSE
  /\ eqPc = "ready"
  /\ RegIdle
  /\ GateIdle

EqCall ==
  /\ eqPc = "ready"
  /\ eqResult' = equalStrings(hasTimingSafeEqual, eqA, eqB)
  /\ eqPc' = "done"
  /\ UNCHANGED <<hasTimingSafeEqual, eqA, eqB, regVars, gateVars>>

NextEq == EqCall

SpecEq == InitEq /\ [][NextEq]_vars

\* C2: equalStrings(a, b) returns true if and only if a and b are the same
\* string, for all pairs of strings, different lengths and "" included.
EqualStringsIffSame ==
  eqPc = "done" => (eqResult <=> (eqA = eqB))

=============================================================================
